---- MODULE Spec2Model ----
(***************************************************************************)
(* Inter-annotator agreement metrics of agreement.py: pk, windowdiff and   *)
(* the pairwise aggregator pairwise_evaluation with its two wrappers       *)
(* pairwise_pk and pairwise_windowdiff.                                    *)
(*                                                                         *)
(* The functions are pure, so each is an operator computed the way the     *)
(* code computes it (loops become RECURSIVE operators), and the state      *)
(* machine is: an argument list is drawn (Init), the function is called    *)
(* (one action per function), its outcome is stored in result.             *)
(*                                                                         *)
(* pk and windowdiff return the Python float of one division num/den of    *)
(* two small integers; their outcome keeps num and den, which determine    *)
(* that float.  pairwise_evaluation adds such floats one after the other   *)
(* and divides the total, every step rounded to a double, so its result    *)
(* is computed as a double (section "Python floats").                      *)
(***************************************************************************)
EXTENDS Integers, Sequences, FiniteSets, TLC

VARIABLES pc, call, result

vars == <<pc, call, result>>

(***************************************************************************)
(* Bounds of the model.                                                    *)
(***************************************************************************)
\* longest segmentation handed directly to pk / windowdiff
MaxLen == 4
\* explicit window widths range over -KSlack .. MaxLen + KSlack
KSlack == 1
\* largest number of annotators of one item
MaxN == 3
\* largest cadence marker
MaxVal == 2

(***************************************************************************)
(* Program constants.                                                      *)
(***************************************************************************)
\* boundary=1, the default of pk and windowdiff
DefaultBoundary == 1
\* k=3, the default of pairwise_windowdiff
DefaultK == 3

\* bits of the mantissa of a Python float (an IEEE 754 double)
MantBits == 53

\* k=None is the empty option, an explicit k is <<k>>
None == <<>>

(***************************************************************************)
(* Argument values with their Python type: a numpy array of numbers, or a  *)
(* str as in the doctests.                                                 *)
(***************************************************************************)
Array(items) == [type |-> "ndarray", items |-> items]

Str(chars) == [type |-> "str", items |-> chars]

\* x.tolist() exists on a numpy array only
HasToList(x) == x.type = "ndarray"

NoToList == "'str' object has no attribute 'tolist'"

(***************************************************************************)
(* Python built-ins the functions use.                                     *)
(***************************************************************************)
Min(a, b) == IF a < b THEN a ELSE b

Max(a, b) == IF a > b THEN a ELSE b

\* abs()
Abs(x) == IF x < 0 THEN 0 - x ELSE x

\* a slice bound as Python normalises it: negative counts from the end,
\* then clamped to 0..n
PyIndex(x, n) == IF x < 0 THEN Max(x + n, 0) ELSE Min(x, n)

\* s[lo:hi] with 0-based lo, hi
Slice(s, lo, hi) ==
    LET a == PyIndex(lo, Len(s))
        b == PyIndex(hi, Len(s))
    IN  IF a < b THEN SubSeq(s, a + 1, b) ELSE <<>>

\* s.count(x)
Count(s, x) == Cardinality({j \in 1..Len(s) : s[j] = x})

\* the fraction num/den (num >= 0, den > 0) rounded as Python 2's round():
\* to the nearest integer, halves away from zero
round_half_even(num, den) ==
    LET q == num \div den
        r == num % den
    IN  IF 2 * r < den THEN q
        ELSE IF 2 * r > den THEN q + 1
        ELSE IF q % 2 = 0 THEN q ELSE q + 1

round(num, den) == (2 * num + den) \div (2 * den)

(***************************************************************************)
(* Python floats.  A float is an IEEE 754 double mant * 2^exp whose        *)
(* mantissa has exactly MantBits bits (0.0 has mantissa 0).  A mantissa    *)
(* does not fit a machine integer of the model checker, so a natural       *)
(* number is written as its digits in base Base, least significant first   *)
(* and without leading zeros (0 is <<>>); no step below leaves the machine *)
(* integers.  A mantissa is two digits.  Only the operations lines 46, 89  *)
(* and 99 apply, to non-negative values, are needed: int / int,            *)
(* float + float and float / int, each rounded to the nearest double,      *)
(* ties to even.                                                           *)
(***************************************************************************)
Base == 2^27

\* number of bits of the machine integer n >= 0, found w bits at a time
RECURSIVE BitLenStep(_, _)
BitLenStep(n, w) ==
    IF w = 0 THEN (IF n > 0 THEN 1 ELSE 0)
    ELSE IF n >= 2^w THEN w + BitLenStep(n \div 2^w, w \div 2)
    ELSE BitLenStep(n, w \div 2)

BitLen(n) == BitLenStep(n, 2^4)

\* bits per digit, and the bits of the lower part of a digit split in two
DigitBits == BitLen(Base) - 1

HalfBits == DigitBits \div 2

\* the natural number n as digits
RECURSIVE NatOf(_)
NatOf(n) == IF n = 0 THEN <<>> ELSE <<n % Base>> \o NatOf(n \div Base)

\* digit i of a (0 beyond its length)
Digit(a, i) == IF i <= Len(a) THEN a[i] ELSE 0

\* a without leading zero digits
RECURSIVE NatTrim(_)
NatTrim(a) ==
    IF a = <<>> THEN <<>>
    ELSE IF a[Len(a)] = 0 THEN NatTrim(SubSeq(a, 1, Len(a) - 1))
    ELSE a

\* a + b
RECURSIVE NatAddFrom(_, _, _, _)
NatAddFrom(a, b, i, carry) ==
    IF i > Len(a) /\ i > Len(b)
    THEN NatOf(carry)
    ELSE LET s == Digit(a, i) + Digit(b, i) + carry
         IN  <<s % Base>> \o NatAddFrom(a, b, i + 1, s \div Base)

NatAdd(a, b) == NatAddFrom(a, b, 1, 0)

\* quotient and remainder of a by a machine integer 1 <= q < 2^17 (long
\* division from the most significant digit i down, each digit in two parts)
RECURSIVE NatDivFrom(_, _, _, _)
NatDivFrom(a, q, i, rem) ==
    IF i = 0
    THEN [quot |-> <<>>, rem |-> rem]
    ELSE LET top == rem * 2^(DigitBits - HalfBits) + (a[i] \div 2^HalfBits)
             bot == (top % q) * 2^HalfBits + (a[i] % 2^HalfBits)
             low == NatDivFrom(a, q, i - 1, bot % q)
         IN  [quot |-> Append(low.quot, (top \div q) * 2^HalfBits + (bot \div q)),
              rem |-> low.rem]

NatDivSmall(a, q) ==
    LET d == NatDivFrom(a, q, Len(a), 0)
    IN  [quot |-> NatTrim(d.quot), rem |-> d.rem]

\* number of bits of a
NatBitLen(a) ==
    IF a = <<>> THEN 0 ELSE DigitBits * (Len(a) - 1) + BitLen(a[Len(a)])

\* a * 2^b for 0 <= b < DigitBits, from digit i up; low holds the bits that
\* digit i - 1 pushed out
RECURSIVE NatShlFrom(_, _, _, _)
NatShlFrom(a, b, i, low) ==
    IF i > Len(a)
    THEN NatOf(low)
    ELSE <<(a[i] % 2^(DigitBits - b)) * 2^b + low>>
         \o NatShlFrom(a, b, i + 1, a[i] \div 2^(DigitBits - b))

\* a * 2^s
NatShl(a, s) ==
    IF a = <<>> \/ s = 0 THEN a
    ELSE [i \in 1..(s \div DigitBits) |-> 0] \o NatShlFrom(a, s % DigitBits, 1, 0)

\* a \div 2^b for 0 <= b < DigitBits, from digit i up
RECURSIVE NatShrFrom(_, _, _)
NatShrFrom(a, b, i) ==
    IF i > Len(a)
    THEN <<>>
    ELSE <<(a[i] \div 2^b) + (Digit(a, i + 1) % 2^b) * 2^(DigitBits - b)>>
         \o NatShrFrom(a, b, i + 1)

\* a \div 2^d
NatShr(a, d) ==
    IF d \div DigitBits >= Len(a) THEN <<>>
    ELSE NatTrim(NatShrFrom(SubSeq(a, d \div DigitBits + 1, Len(a)), d % DigitBits, 1))

\* bit i of a (bit 0 is the least significant)
NatBit(a, i) == (Digit(a, i \div DigitBits + 1) \div 2^(i % DigitBits)) % 2

\* some bit of a below bit i is set
NatLowBits(a, i) ==
    \/ \E w \in 1..Min(Len(a), i \div DigitBits) : a[w] # 0
    \/ Digit(a, i \div DigitBits + 1) % 2^(i % DigitBits) # 0

NatOdd(a) == a # <<>> /\ a[1] % 2 = 1

FloatZero == [mant |-> <<>>, exp |-> 0]

\* the double nearest to x * 2^e, ties to even; inexact says that x * 2^e
\* is the truncation of a larger value (x then has more than MantBits + 1 bits)
RoundToDouble(x, e, inexact) ==
    IF x = <<>> THEN FloatZero
    ELSE LET len == NatBitLen(x)
         IN  IF len <= MantBits
             THEN [mant |-> NatShl(x, MantBits - len), exp |-> e - (MantBits - len)]
             ELSE LET d == len - MantBits
                      q == NatShr(x, d)
                      half == NatBit(x, d - 1) = 1
                      below == inexact \/ NatLowBits(x, d - 1)
                      m == IF half /\ (below \/ NatOdd(q)) THEN NatAdd(q, <<1>>) ELSE q
                  IN  IF NatBitLen(m) > MantBits
                      THEN [mant |-> NatShr(m, 1), exp |-> e + d + 1]
                      ELSE [mant |-> m, exp |-> e + d]

\* float(num) / float(den) for machine integers num >= 0 and 1 <= den < 2^17
\* (both are doubles exactly)
IntDiv(num, den) ==
    IF num = 0 THEN FloatZero
    ELSE LET s == MantBits + 1 + BitLen(den)
             d == NatDivSmall(NatShl(NatOf(num), s), den)
         IN  RoundToDouble(d.quot, 0 - s, d.rem # 0)

\* x / n for a float x >= 0 and an integer 1 <= n < 2^17
FloatDivInt(x, n) ==
    IF x.mant = <<>> THEN FloatZero
    ELSE LET s == BitLen(n) + 2
             d == NatDivSmall(NatShl(x.mant, s), n)
         IN  RoundToDouble(d.quot, x.exp - s, d.rem # 0)

\* the mantissa digits <<lo, hi>> of a float satisfy Top \div 2 <= hi < Top
Top == 2^(MantBits - DigitBits)

\* x + y for floats x, y > 0 with x.exp >= y.exp, as the adder computes it:
\* y's mantissa is moved right by the difference d of the exponents, one
\* further digit ext keeping the bits moved out (lost: a bit fell off ext);
\* a sum of MantBits + 1 bits is moved right once more; the bits below the
\* mantissa then decide the rounding
FloatAddAligned(x, y) ==
    LET d == x.exp - y.exp
    IN  IF d > MantBits THEN x
        ELSE LET far == d >= DigitBits
                 y2 == IF far THEN 0 ELSE y.mant[2]
                 y1 == IF far THEN y.mant[2] ELSE y.mant[1]
                 y0 == IF far THEN y.mant[1] ELSE 0
                 p == 2^(d % DigitBits)
                 r == 2^(DigitBits - (d % DigitBits))
                 lo_s == x.mant[1] + (y2 % p) * r + (y1 \div p)
                 hi_s == x.mant[2] + (y2 \div p) + (lo_s \div Base)
                 ext_s == (y1 % p) * r + (y0 \div p)
                 over == hi_s >= Top
                 hi == IF over THEN hi_s \div 2 ELSE hi_s
                 lo == IF over
                       THEN ((lo_s % Base) \div 2) + (hi_s % 2) * (Base \div 2)
                       ELSE lo_s % Base
                 ext == IF over THEN (ext_s \div 2) + (lo_s % 2) * (Base \div 2) ELSE ext_s
                 lost == y0 % p # 0 \/ (over /\ ext_s % 2 = 1)
                 e == IF over THEN x.exp + 1 ELSE x.exp
                 up == \/ ext > Base \div 2
                       \/ ext = Base \div 2 /\ (lost \/ lo % 2 = 1)
             IN  IF ~up THEN [mant |-> <<lo, hi>>, exp |-> e]
                 ELSE IF lo + 1 < Base THEN [mant |-> <<lo + 1, hi>>, exp |-> e]
                 ELSE IF hi + 1 < Top THEN [mant |-> <<0, hi + 1>>, exp |-> e]
                 ELSE [mant |-> <<0, Top \div 2>>, exp |-> e + 1]

\* x + y for floats x, y >= 0
FloatAdd(x, y) ==
    IF x.mant = <<>> THEN y
    ELSE IF y.mant = <<>> THEN x
    ELSE IF x.exp >= y.exp THEN FloatAddAligned(x, y)
    ELSE FloatAddAligned(y, x)

\* IntDiv for the operands of the scores of short vectors, computed once
Quotients ==
    [den \in 1..(MaxVal + 3) |-> [num \in 0..den |-> IntDiv(num, den)]]

\* the float a returned score num / den stands for (num >= 0, den >= 1)
ScoreValue(r) ==
    IF r.den <= MaxVal + 3 /\ r.num <= r.den
    THEN Quotients[r.den][r.num]
    ELSE IntDiv(r.num, r.den)

(***************************************************************************)
(* Outcomes of a call: a returned score num/den, or a raised exception.    *)
(* k is the window width in force (None when none was fixed yet), windows  *)
(* the number of windows evaluated.                                        *)
(***************************************************************************)
Return(num, den, k, windows, line) ==
    [status |-> "ok", msg |-> "", line |-> line,
     num |-> num, den |-> den, k |-> k, windows |-> windows]

Raise(status, msg, line, k, windows) ==
    [status |-> status, msg |-> msg, line |-> line,
     num |-> 0, den |-> 1, k |-> k, windows |-> windows]

(***************************************************************************)
(* pk                                                                      *)
(***************************************************************************)
\* number of window start positions, len(ref)-k +1 (the loop bound and the divisor)
pk_positions_off_by_one(ref, k) == Len(ref) - k

pk_positions(ref, k) == Len(ref) - k + 1

\* one pass of the loop body: what window i adds to err
pk_window_miss_only(ref, hyp, k, i, boundary) ==
    LET r == Count(Slice(ref, i, i + k), boundary) > 0
        h == Count(Slice(hyp, i, i + k), boundary) > 0
    IN  IF r /\ ~h THEN 1 ELSE 0

pk_window_short_hyp(ref, hyp, k, i, boundary) ==
    LET r == Count(Slice(ref, i, i + k), boundary) > 0
        h == Count(Slice(hyp, i, i + k - 1), boundary) > 0
    IN  IF r # h THEN 1 ELSE 0

pk_window_count_diff(ref, hyp, k, i, boundary) ==
    Abs(Count(Slice(ref, i, i + k), boundary) - Count(Slice(hyp, i, i + k), boundary))

pk_window(ref, hyp, k, i, boundary) ==
    LET r == Count(Slice(ref, i, i + k), boundary) > 0
        h == Count(Slice(hyp, i, i + k), boundary) > 0
    IN  IF r # h THEN 1 ELSE 0

\* for i in xrange(len(ref)-k +1)
RECURSIVE pk_loop(_, _, _, _, _, _)
pk_loop(ref, hyp, k, boundary, i, err) ==
    IF i >= pk_positions(ref, k)
    THEN err
    ELSE pk_loop(ref, hyp, k, boundary, i + 1,
                 err + pk_window(ref, hyp, k, i, boundary))

\* k = int(round(len(ref) / (ref.count(boundary) * 2.)))
default_k(ref, boundary) == round(Len(ref), Count(ref, boundary) * 2)

\* the body of pk after ref, hyp = ref.tolist(), hyp.tolist()
pk_lists(ref, hyp, k0, boundary) ==
    IF k0 = None /\ Count(ref, boundary) = 0
    THEN Raise("ZeroDivisionError", "float division by zero", 38, None, 0)
    ELSE LET k == IF k0 = None THEN default_k(ref, boundary) ELSE k0[1]
             n == pk_positions(ref, k)
             err == pk_loop(ref, hyp, k, boundary, 0, 0)
         IN  IF n = 0
             THEN Raise("ZeroDivisionError", "float division by zero", 46,
                        <<k>>, Max(n, 0))
             ELSE Return(err, n, <<k>>, Max(n, 0), 46)

pk(ref, hyp, k0, boundary) ==
    IF ~HasToList(ref) \/ ~HasToList(hyp)
    THEN Raise("AttributeError", NoToList, 36, k0, 0)
    ELSE pk_lists(ref.items, hyp.items, k0, boundary)

(***************************************************************************)
(* windowdiff                                                              *)
(***************************************************************************)
\* the two precondition checks, in the order the code makes them;
\* status "ok" when both pass
windowdiff_check_width_first(seg1, seg2, k) ==
    IF k > Len(seg1)
    THEN Raise("ValueError",
               "Window width k should be smaller or equal than segmentation lengths",
               81, <<k>>, 0)
    ELSE IF Len(seg1) # Len(seg2)
         THEN Raise("ValueError", "Segmentations have unequal length", 79, <<k>>, 0)
         ELSE Return(0, 1, <<k>>, 0, 82)

windowdiff_check(seg1, seg2, k) ==
    IF Len(seg1) # Len(seg2)
    THEN Raise("ValueError", "Segmentations have unequal length", 79, <<k>>, 0)
    ELSE IF k > Len(seg1)
         THEN Raise("ValueError",
                    "Window width k should be smaller or equal than segmentation lengths",
                    81, <<k>>, 0)
         ELSE Return(0, 1, <<k>>, 0, 82)

\* one pass of the loop body: what window i adds to wd
wd_window(seg1, seg2, k, i, boundary, weighted) ==
    LET ndiff == Abs(Count(Slice(seg1, i, i + k), boundary)
                     - Count(Slice(seg2, i, i + k), boundary))
    IN  IF weighted THEN ndiff ELSE Min(1, ndiff)

\* for i in range(len(seg1) - k + 1)
RECURSIVE wd_loop(_, _, _, _, _, _, _)
wd_loop(seg1, seg2, k, boundary, weighted, i, wd) ==
    IF i >= Len(seg1) - k + 1
    THEN wd
    ELSE wd_loop(seg1, seg2, k, boundary, weighted, i + 1,
                 wd + wd_window(seg1, seg2, k, i, boundary, weighted))

\* the body of windowdiff after seg1, seg2 = seg1.tolist(), seg2.tolist()
windowdiff_lists(seg1, seg2, k, boundary, weighted) ==
    LET chk == windowdiff_check(seg1, seg2, k)
    IN  IF chk.status # "ok"
        THEN chk
        ELSE LET n == Len(seg1) - k + 1
             IN  Return(wd_loop(seg1, seg2, k, boundary, weighted, 0, 0),
                        n, <<k>>, Max(n, 0), 89)

windowdiff(seg1, seg2, k, boundary, weighted) ==
    IF ~HasToList(seg1) \/ ~HasToList(seg2)
    THEN Raise("AttributeError", NoToList, 77, <<k>>, 0)
    ELSE windowdiff_lists(seg1.items, seg2.items, k, boundary, weighted)

(***************************************************************************)
(* pairwise_evaluation                                                     *)
(***************************************************************************)
\* the scoring functions the wrappers hand to pairwise_evaluation:
\* pk itself, and partial(windowdiff, k=k)
FnPk == [name |-> "pk", k |-> 0]

FnWindowdiff(k) == [name |-> "windowdiff", k |-> k]

\* fn(a, b) for two rows a, b of the numpy matrix bin_annotations
Apply(fn, a, b) ==
    IF fn.name = "pk"
    THEN pk(Array(a), Array(b), None, DefaultBoundary)
    ELSE windowdiff(Array(a), Array(b), fn.k, DefaultBoundary, FALSE)

\* the values of (v for annotation in annotations for v in annotation)
Values(annotations) ==
    UNION {{annotations[i][j] : j \in 1..Len(annotations[i])} : i \in 1..Len(annotations)}

\* max() of a non-empty set of integers
SetMax(S) == CHOOSE m \in S : \A x \in S : x <= m

\* np.zeros((len(annotations), max_val+1)) with bin_annotations[i, annotation] = 1.0
\* for every i: row i holds 1 at the (0-based) positions annotation i lists
bin_annotations(annotations, max_val) ==
    [i \in 1..Len(annotations) |->
        [j \in 1..(max_val + 1) |->
            IF \E x \in 1..Len(annotations[i]) : annotations[i][x] = j - 1 THEN 1 ELSE 0]]

\* itertools.combinations(range(n), 2) as 1-based index pairs, in the order
\* the iterator yields them
RECURSIVE comb_from(_, _, _)
comb_from(n, i, j) ==
    IF i >= n THEN <<>>
    ELSE IF j > n THEN comb_from(n, i + 1, i + 2)
    ELSE <<<<i, j>>>> \o comb_from(n, i, j + 1)

combinations(n) == comb_from(n, 1, 2)

\* sum(scores): the floats of the list added to acc one after the other from
\* position p on, every addition rounded (acc starts as 0)
RECURSIVE sum_backwards(_, _, _)
sum_backwards(scores, p, acc) ==
    IF p > Len(scores)
    THEN acc
    ELSE FloatAdd(sum_backwards(scores, p + 1, acc), ScoreValue(scores[p]))

RECURSIVE sum(_, _, _)
sum(scores, p, acc) ==
    IF p > Len(scores)
    THEN acc
    ELSE sum(scores, p + 1, FloatAdd(acc, ScoreValue(scores[p])))

\* outcome of pairwise_evaluation: status, message and line as Return/Raise,
\* the float returned (0.0 when an exception is raised), the encoded vectors,
\* the index pairs fn was invoked on (in order) and the scores appended
PwOutcome(r, value, bin, calls, scores) ==
    [status |-> r.status, msg |-> r.msg, line |-> r.line, value |-> value,
     bin |-> bin, calls |-> calls, scores |-> scores]

\* for a, b in combinations(bin_annotations, 2): scores.append(fn(a, b))
\* then return sum(scores) / len(scores); an exception of fn propagates
RECURSIVE pw_loop(_, _, _, _, _)
pw_loop(fn, bin, pairs, p, scores) ==
    IF p > Len(pairs)
    THEN IF Len(scores) = 0
         THEN PwOutcome(Raise("ZeroDivisionError",
                              "integer division or modulo by zero", 99, None, 0),
                        FloatZero, bin, pairs, scores)
         ELSE PwOutcome(Return(0, 1, None, 0, 99),
                        FloatDivInt(sum(scores, 1, FloatZero), Len(scores)),
                        bin, pairs, scores)
    ELSE LET r == Apply(fn, bin[pairs[p][1]], bin[pairs[p][2]])
         IN  IF r.status # "ok"
             THEN PwOutcome(r, FloatZero, bin, SubSeq(pairs, 1, p), scores)
             ELSE pw_loop(fn, bin, pairs, p + 1, Append(scores, r))

pairwise_evaluation(fn, annotations) ==
    IF Values(annotations) = {}
    THEN PwOutcome(Raise("ValueError", "max() arg is an empty sequence", 92, None, 0),
                   FloatZero, <<>>, <<>>, <<>>)
    ELSE LET max_val == SetMax(Values(annotations))
             bin == bin_annotations(annotations, max_val)
         IN  pw_loop(fn, bin, combinations(Len(bin)), 1, <<>>)

pairwise_pk(annotations) == pairwise_evaluation(FnPk, annotations)

pairwise_windowdiff(annotations, k) == pairwise_evaluation(FnWindowdiff(k), annotations)

(***************************************************************************)
(* The calls.  A call record names the function and gives its arguments;   *)
(* arguments the function does not take are left at a fixed value.         *)
(***************************************************************************)
Call(fn, seg1, seg2, k, boundary, weighted, annotations) ==
    [fn |-> fn, seg1 |-> seg1, seg2 |-> seg2, k |-> k, boundary |-> boundary,
     weighted |-> weighted, annotations |-> annotations]

\* segmentations over the two-symbol vocabulary {0, 1}, of length 0..n
BinSeqs(n) == UNION {[1..l -> {0, 1}] : l \in 0..n}

KValues == (0 - KSlack)..(MaxLen + KSlack)

\* the segmentations of windowdiff's doctest, the str literals it passes
s1 == "000100000010"

s2 == "000010000100"

s3 == "100000010000"

\* windowdiff(a, b, 3) as the doctest calls it
DocCall(a, b) ==
    Call("windowdiff", Str(a), Str(b), <<DefaultK>>, DefaultBoundary, FALSE, <<>>)

\* the str literals of pk's doctest: '0100'*100, '1'*400 and '0'*400
p0100 == "0100010001000100010001000100010001000100010001000100010001000100010001000100010001000100010001000100010001000100010001000100010001000100010001000100010001000100010001000100010001000100010001000100010001000100010001000100010001000100010001000100010001000100010001000100010001000100010001000100010001000100010001000100010001000100010001000100010001000100010001000100010001000100010001000100010001000100"

p1 == "1111111111111111111111111111111111111111111111111111111111111111111111111111111111111111111111111111111111111111111111111111111111111111111111111111111111111111111111111111111111111111111111111111111111111111111111111111111111111111111111111111111111111111111111111111111111111111111111111111111111111111111111111111111111111111111111111111111111111111111111111111111111111111111111111111111111111111"

p0 == "0000000000000000000000000000000000000000000000000000000000000000000000000000000000000000000000000000000000000000000000000000000000000000000000000000000000000000000000000000000000000000000000000000000000000000000000000000000000000000000000000000000000000000000000000000000000000000000000000000000000000000000000000000000000000000000000000000000000000000000000000000000000000000000000000000000000000000"

\* pk(a, b, 2) as the doctest calls it
PkDocCall(a, b) == Call("pk", Str(a), Str(b), <<2>>, DefaultBoundary, FALSE, <<>>)

\* the calls of the two doctests
DocCalls ==
    {DocCall(s1, s1), DocCall(s1, s2), DocCall(s2, s3),
     PkDocCall(p0100, p1), PkDocCall(p0100, p0), PkDocCall(p0100, p0100)}

NoResult == [status |-> "none"]

Init ==
    /\ pc = "ready"
    /\ result = NoResult
    /\ \/ \E a \in BinSeqs(MaxLen), b \in BinSeqs(MaxLen), bd \in {0, 1} :
              \/ call = Call("pk", Array(a), Array(b), None, bd, FALSE, <<>>)
              \/ \E k \in KValues :
                    call = Call("pk", Array(a), Array(b), <<k>>, bd, FALSE, <<>>)
              \/ \E k \in KValues, w \in BOOLEAN :
                    call = Call("windowdiff", Array(a), Array(b), <<k>>, bd, w, <<>>)
       \/ call \in DocCalls

CallPk ==
    /\ pc = "ready"
    /\ call.fn = "pk"
    /\ result' = pk(call.seg1, call.seg2, call.k, call.boundary)
    /\ pc' = "done"
    /\ UNCHANGED call

CallWindowdiff ==
    /\ pc = "ready"
    /\ call.fn = "windowdiff"
    /\ result' = windowdiff(call.seg1, call.seg2, call.k[1], call.boundary, call.weighted)
    /\ pc' = "done"
    /\ UNCHANGED call

Next == CallPk \/ CallWindowdiff

Spec == Init /\ [][Next]_vars

\* annotation sequences: cadence markers 0..MaxVal listed in increasing order
RECURSIVE Ascending(_)
Ascending(S) ==
    IF S = {} THEN <<>>
    ELSE LET m == CHOOSE x \in S : \A y \in S : x <= y
         IN  <<m>> \o Ascending(S \ {m})

Annotation == {Ascending(S) : S \in SUBSET (0..MaxVal)}

\* annotation lists with repeated and unordered markers
UnorderedAnnotations ==
    {<<<<2, 0, 2>>, <<1, 1>>>>, <<<<1, 0>>, <<0, 0, 1>>, <<2, 1, 2>>>>, <<<<1, 1, 0>>>>}

\* an annotation list whose vectors are longer than the window of
\* pairwise_windowdiff, with three different pairwise scores
LongAnnotations == {<<<<4>>, <<3>>, <<2, 3>>>>}

\* the calls of the two wrappers on the annotation list a, as the program
\* makes them: pairwise_pk(a) and pairwise_windowdiff(a) with its default k
PairwiseCalls(a) ==
    {Call("pairwise_pk", <<>>, <<>>, None, DefaultBoundary, FALSE, a),
     Call("pairwise_windowdiff", <<>>, <<>>, <<DefaultK>>, DefaultBoundary, FALSE, a)}

InitPairwise ==
    /\ pc = "ready"
    /\ result = NoResult
    /\ \/ \E n \in 0..MaxN : \E a \in [1..n -> Annotation] : call \in PairwiseCalls(a)
       \/ \E a \in UnorderedAnnotations \cup LongAnnotations : call \in PairwiseCalls(a)

CallPairwisePk ==
    /\ pc = "ready"
    /\ call.fn = "pairwise_pk"
    /\ result' = pairwise_pk(call.annotations)
    /\ pc' = "done"
    /\ UNCHANGED call

CallPairwiseWindowdiff ==
    /\ pc = "ready"
    /\ call.fn = "pairwise_windowdiff"
    /\ result' = pairwise_windowdiff(call.annotations, call.k[1])
    /\ pc' = "done"
    /\ UNCHANGED call

NextPairwise == CallPairwisePk \/ CallPairwiseWindowdiff

SpecPairwise == InitPairwise /\ [][NextPairwise]_vars

(***************************************************************************)
(* Properties of pk and windowdiff (specification Spec).                   *)
(***************************************************************************)
\* the two segmentations of the call are numpy arrays
OnArrays == HasToList(call.seg1) /\ HasToList(call.seg2)

\* the symbols of the two segmentations
Seg1 == call.seg1.items

Seg2 == call.seg2.items

\* the call compares two segmentations (arrays) of equal length with an
\* explicit window width 1 <= k <= len
ValidPair ==
    /\ OnArrays
    /\ call.k # None
    /\ Len(Seg1) = Len(Seg2)
    /\ 1 <= call.k[1]
    /\ call.k[1] <= Len(Seg1)

\* the same call with the two segmentations exchanged
Swapped ==
    IF call.fn = "pk"
    THEN pk(call.seg2, call.seg1, call.k, call.boundary)
    ELSE windowdiff(call.seg2, call.seg1, call.k[1], call.boundary, call.weighted)

\* C1: pk and windowdiff (weighted or not) give the same score when their two
\* equal-length segmentations are exchanged, for every explicit 1 <= k <= len.
C1_Symmetric ==
    (pc = "done" /\ ValidPair) =>
        /\ result.status = "ok"
        /\ Swapped.status = "ok"
        /\ result.num * Swapped.den = Swapped.num * result.den

C1_Witness ==
    /\ pc = "done"
    /\ ValidPair
    /\ call.fn = "pk"
    /\ call.k[1] >= 2
    /\ Seg1 # Seg2
    /\ result.status = "ok"
    /\ result.num > 0

UnequalLength == "Segmentations have unequal length"

WidthTooLarge == "Window width k should be smaller or equal than segmentation lengths"

\* C2: on two arrays windowdiff raises the unequal-length error when the
\* lengths differ, otherwise the window-width error when k > len(seg1), in
\* that order and before any window is evaluated; with equal lengths and
\* k <= len(seg1) it raises neither.
C2_WindowdiffRejects ==
    (pc = "done" /\ call.fn = "windowdiff" /\ OnArrays) =>
        /\ Len(Seg1) # Len(Seg2) =>
              /\ result.status = "ValueError"
              /\ result.msg = UnequalLength
              /\ result.windows = 0
        /\ (Len(Seg1) = Len(Seg2) /\ call.k[1] > Len(Seg1)) =>
              /\ result.status = "ValueError"
              /\ result.msg = WidthTooLarge
              /\ result.windows = 0
        /\ (Len(Seg1) = Len(Seg2) /\ call.k[1] <= Len(Seg1)) =>
              result.status = "ok"

C2_Witness ==
    /\ pc = "done"
    /\ call.fn = "windowdiff"
    /\ OnArrays
    /\ Len(Seg1) # Len(Seg2)
    /\ call.k[1] > Len(Seg1)
    /\ result.status = "ValueError"
    /\ result.msg = UnequalLength

\* number of boundary symbols among the k symbols of seg from 0-based position i
InWindow(seg, i, k) ==
    Cardinality({j \in (i + 1)..(i + k) : seg[j] = call.boundary})

\* window start positions of a valid pair
Positions == 0..(Len(Seg1) - call.k[1])

\* |difference of the two windows' boundary counts| at position i
CountGap(i) ==
    Abs(InWindow(Seg1, i, call.k[1]) - InWindow(Seg2, i, call.k[1]))

\* for a valid pair, unweighted windowdiff is (number of positions whose two
\* windows hold different boundary counts) / (len - k + 1), weighted
\* windowdiff is (sum of the absolute count differences) / (len - k + 1)
WindowdiffValueOnArrays ==
    (pc = "done" /\ call.fn = "windowdiff" /\ ValidPair) =>
        /\ result.status = "ok"
        /\ result.den = Len(Seg1) - call.k[1] + 1
        /\ ~call.weighted =>
              result.num = Cardinality({i \in Positions : CountGap(i) # 0})
        /\ call.weighted =>
              result.num = Cardinality({x \in Positions \X (1..call.k[1]) :
                                           CountGap(x[1]) >= x[2]})

\* the call is the doctest's windowdiff(a, b, 3) on the str literals a, b
IsDocCall(a, b) ==
    /\ call.fn = "windowdiff"
    /\ ~OnArrays
    /\ Seg1 = a
    /\ Seg2 = b
    /\ call.k = <<DefaultK>>
    /\ call.boundary = DefaultBoundary
    /\ ~call.weighted

\* the call returned the score num / den
Scored(num, den) ==
    /\ result.status = "ok"
    /\ result.num * den = num * result.den

\* C3 as stated: windowdiff returns the value above on every valid pair, and
\* with k = 3 the documented examples give 0/10 for ("000100000010",
\* "000100000010"), 3/10 for ("000100000010", "000010000100") and 8/10 for
\* ("000010000100", "100000010000").
C3_WindowdiffValue ==
    /\ WindowdiffValueOnArrays
    /\ pc = "done" =>
          /\ IsDocCall(s1, s1) => Scored(0, 10)
          /\ IsDocCall(s1, s2) => Scored(3, 10)
          /\ IsDocCall(s2, s3) => Scored(8, 10)

\* C4: for a valid pair, the error count of pk and of unweighted windowdiff
\* lies between 0 and the number of window positions len - k + 1, so the
\* score lies in [0, 1].
C4_Range ==
    (pc = "done" /\ ValidPair /\ (call.fn = "pk" \/ ~call.weighted)) =>
        /\ result.status = "ok"
        /\ result.den = Len(Seg1) - call.k[1] + 1
        /\ 0 <= result.num
        /\ result.num <= result.den

C4_Witness ==
    /\ pc = "done"
    /\ ValidPair
    /\ call.fn = "pk"
    /\ result.status = "ok"
    /\ result.den >= 2
    /\ result.num = result.den

\* C5: comparing a segmentation (an array) with itself scores zero, for pk
\* and for windowdiff (weighted or not) and every 1 <= k <= len.
C5_Identity ==
    (pc = "done" /\ ValidPair /\ Seg1 = Seg2) =>
        /\ result.status = "ok"
        /\ result.num = 0

C5_Witness ==
    /\ pc = "done"
    /\ ValidPair
    /\ Seg1 = Seg2
    /\ call.fn = "pk"
    /\ Len(Seg1) >= 2
    /\ Count(Seg1, call.boundary) >= 1
    /\ Count(Seg1, call.boundary) < Len(Seg1)
    /\ result.status = "ok"
    /\ result.num = 0

\* C9 as stated: pk fails with a division by zero when k equals len(ref)
\* (taken on non-empty arrays of equal length).
C9_DivZeroAtLen ==
    (/\ pc = "done"
     /\ call.fn = "pk"
     /\ OnArrays
     /\ call.k # None
     /\ Len(Seg1) >= 1
     /\ Len(Seg1) = Len(Seg2)
     /\ call.k[1] = Len(Seg1)) =>
        result.status = "ZeroDivisionError"

\* C9 amended: on arrays the final division of pk divides by zero exactly when
\* the window width in force is len(ref) + 1; with k = len(ref) there is one
\* window position and pk returns err / 1.
C9_DivZeroAtLenPlusOne ==
    (pc = "done" /\ call.fn = "pk" /\ OnArrays) =>
        /\ (result.status = "ZeroDivisionError" /\ result.line = 46)
              <=> (result.k # None /\ result.k[1] = Len(Seg1) + 1)
        /\ (call.k # None /\ call.k[1] = Len(Seg1)) =>
              /\ result.status = "ok"
              /\ result.den = 1
              /\ result.windows = 1

C9_Witness ==
    /\ pc = "done"
    /\ call.fn = "pk"
    /\ OnArrays
    /\ call.k # None
    /\ Len(Seg1) >= 1
    /\ Len(Seg1) = Len(Seg2)
    /\ call.k[1] = Len(Seg1) + 1
    /\ result.status = "ZeroDivisionError"
    /\ result.line = 46

(***************************************************************************)
(* Properties of the pairwise aggregator (specification SpecPairwise).     *)
(***************************************************************************)
\* number of annotators of the call
N == Len(call.annotations)

\* the markers annotator i lists
Markers(i) == {call.annotations[i][x] : x \in 1..Len(call.annotations[i])}

AllMarkers == UNION {Markers(i) : i \in 1..N}

\* (max value over all sequences) + 1
VecLen ==
    LET all == AllMarkers
    IN  (CHOOSE m \in all : \A x \in all : x <= m) + 1

\* the binary vector of every annotator i: 1 at the positions annotator i lists
Indicators ==
    LET len == VecLen
    IN  [i \in 1..N |->
            LET listed == Markers(i)
            IN  [j \in 1..len |-> IF (j - 1) \in listed THEN 1 ELSE 0]]

\* the scoring function the wrapper of the call hands to pairwise_evaluation
ScoringFn == IF call.fn = "pairwise_pk" THEN FnPk ELSE FnWindowdiff(call.k[1])

\* the unordered pairs of distinct annotators
UnorderedPairs == {pr \in (1..N) \X (1..N) : pr[1] < pr[2]}

\* N*(N-1)/2
NPairs == (N * (N - 1)) \div 2

\* the score of every unordered pair of distinct annotators
PairScores ==
    LET vec == Indicators
        fn == ScoringFn
    IN  [pr \in UnorderedPairs |-> Apply(fn, vec[pr[1]], vec[pr[2]])]

\* the sum of the scores ps[pr] of the pairs pr in S, as a fraction
RECURSIVE SumOver(_, _)
SumOver(ps, S) ==
    IF S = {} THEN [num |-> 0, den |-> 1]
    ELSE LET pr == CHOOSE x \in S : TRUE
             rest == SumOver(ps, S \ {pr})
             sc == ps[pr]
         IN  [num |-> rest.num * sc.den + sc.num * rest.den,
              den |-> rest.den * sc.den]

\* every vector handed to the scoring function is binary of length max + 1
VectorsEncoded ==
    LET vec == Indicators
    IN  /\ Len(result.bin) = N
        /\ \A i \in 1..N : result.bin[i] = vec[i]

\* the scoring function was invoked on pairs of distinct annotators only,
\* each unordered pair at most once
CallsDistinctPairs ==
    \A p \in 1..Len(result.calls) :
        /\ result.calls[p] \in UnorderedPairs
        /\ \A q \in 1..Len(result.calls) : q # p => result.calls[q] # result.calls[p]

\* a <= b for natural numbers written in digits
RECURSIVE NatLeqFrom(_, _, _)
NatLeqFrom(a, b, i) ==
    IF i = 0 THEN TRUE
    ELSE IF a[i] # b[i] THEN a[i] < b[i]
    ELSE NatLeqFrom(a, b, i - 1)

NatLeq(a, b) ==
    IF Len(a) # Len(b) THEN Len(a) < Len(b) ELSE NatLeqFrom(a, b, Len(a))

\* the floats x, y >= 0 are at most Ulps units in the last place apart
Ulps == 2^3

Near(x, y) ==
    IF x.mant = <<>> \/ y.mant = <<>>
    THEN x = y
    ELSE LET e == Min(x.exp, y.exp)
             a == NatShl(x.mant, x.exp - e)
             b == NatShl(y.mant, y.exp - e)
         IN  /\ x.exp - e <= 1
             /\ y.exp - e <= 1
             /\ NatLeq(a, NatAdd(b, NatOf(Ulps)))
             /\ NatLeq(b, NatAdd(a, NatOf(Ulps)))

\* the scores ps of the pairs <<i, j>>, <<i, j+1>>, ... in lexicographic order
\* (the order of invocation) added to acc one by one, every addition rounded
RECURSIVE AddUp(_, _, _, _)
AddUp(ps, i, j, acc) ==
    IF i >= N THEN acc
    ELSE IF j > N THEN AddUp(ps, i + 1, i + 2, acc)
    ELSE AddUp(ps, i, j + 1, FloatAdd(acc, ScoreValue(ps[<<i, j>>])))

\* the result is the sum of the scores ps divided by N*(N-1)/2: as a float,
\* the scores added in the order of invocation and the total divided, and
\* that float is next to the double nearest to the exact mean
MeanOfPairs(ps) ==
    LET total == SumOver(ps, UnorderedPairs)
    IN  /\ result.value = FloatDivInt(AddUp(ps, 1, 2, FloatZero), NPairs)
        /\ Near(result.value, IntDiv(total.num, total.den * NPairs))

\* every annotator lists at least one marker
AllNonEmpty == \A i \in 1..N : Len(call.annotations[i]) >= 1

\* C6 as stated: with exactly one annotation sequence (a non-empty one, so
\* that the maximum exists) pairwise_evaluation raises the precondition error
\* "at least two annotators required", not a division by zero.
C6_SingleAnnotatorRejected ==
    (pc = "done" /\ N = 1 /\ AllNonEmpty) =>
        /\ result.status # "ok"
        /\ result.status # "ZeroDivisionError"
        /\ result.msg = "at least two annotators required"

\* C7 as stated: for N >= 2 sequences of non-negative integers the scoring
\* function is invoked exactly N*(N-1)/2 times, once per unordered pair of
\* distinct annotators, on binary vectors of length max + 1, and the sum of
\* the scores divided by N*(N-1)/2 is returned (as a float).
C7_AllPairsOnce ==
    (pc = "done" /\ N >= 2) =>
        /\ result.status = "ok"
        /\ VectorsEncoded
        /\ CallsDistinctPairs
        /\ Len(result.calls) = NPairs
        /\ MeanOfPairs(PairScores)

\* C7 amended: for N >= 2 sequences of non-negative integers that are not all
\* empty, the scoring function is invoked only on unordered pairs of distinct
\* annotators, no pair twice, always on binary vectors of length max + 1;
\* if it returns a score for every pair it is invoked exactly N*(N-1)/2 times
\* and the float sum of the scores, added in the order of invocation, divided
\* by N*(N-1)/2 is returned, which is the exact mean up to rounding; otherwise
\* the error is the one the scoring function raised on the last pair it was
\* given.
C7_AllPairsOnceNotAllEmpty ==
    (pc = "done" /\ N >= 2 /\ AllMarkers # {}) =>
        LET ps == PairScores
        IN  /\ VectorsEncoded
            /\ CallsDistinctPairs
            /\ result.status = "ok" =>
                  /\ Len(result.calls) = NPairs
                  /\ MeanOfPairs(ps)
            /\ result.status # "ok" =>
                  /\ Len(result.calls) >= 1
                  /\ \A p \in 1..(Len(result.calls) - 1) :
                        ps[result.calls[p]].status = "ok"
                  /\ LET last == ps[result.calls[Len(result.calls)]]
                     IN  /\ last.status = result.status
                         /\ last.line = result.line

C7_Witness ==
    /\ pc = "done"
    /\ N = 3
    /\ AllNonEmpty
    /\ call.fn = "pairwise_pk"
    /\ result.status = "ok"
    /\ Len(result.calls) = 3
    /\ result.value # FloatZero
    /\ \E p, q \in 1..3 : ScoreValue(result.scores[p]) # ScoreValue(result.scores[q])

\* the annotators of the call in the order p
Permuted(p) == [i \in 1..N |-> call.annotations[p[i]]]

\* the call repeated with the annotators in the order p
Reordered(p) ==
    IF call.fn = "pairwise_pk"
    THEN pairwise_pk(Permuted(p))
    ELSE pairwise_windowdiff(Permuted(p), call.k[1])

\* C8 as stated: for N >= 2 non-empty annotation sequences, pairwise_pk and
\* pairwise_windowdiff return the same value for every order of the annotators.
C8_OrderIndependent ==
    (pc = "done" /\ N >= 2 /\ AllNonEmpty) =>
        \A p \in Permutations(1..N) :
            /\ Reordered(p).status = result.status
            /\ Reordered(p).value = result.value

\* C10: inside pairwise_pk with N >= 2 non-empty sequences, every encoded
\* vector of length L holds c >= 1 boundary symbols, the default k of every
\* pair is L / (2c) rounded half away from zero and satisfies 1 <= k <= L, no
\* division divides by zero, and every pairwise Pk score is in [0, 1].
C10_DefaultKUsable ==
    (pc = "done" /\ call.fn = "pairwise_pk" /\ N >= 2 /\ AllNonEmpty) =>
        /\ result.status = "ok"
        /\ \A i \in 1..N : Count(result.bin[i], DefaultBoundary) >= 1
        /\ Len(result.scores) = Len(result.calls)
        /\ \A p \in 1..Len(result.scores) :
              LET sc == result.scores[p]
                  c == Count(result.bin[result.calls[p][1]], DefaultBoundary)
                  k == sc.k[1]
                  len == Len(result.bin[result.calls[p][1]])
              IN  /\ len = VecLen
                  /\ c * (2 * k - 1) <= len
                  /\ len < c * (2 * k + 1)
                  /\ 1 <= k
                  /\ k <= len
                  /\ sc.den = len - k + 1
                  /\ 0 <= sc.num
                  /\ sc.num <= sc.den

C10_Witness ==
    /\ pc = "done"
    /\ call.fn = "pairwise_pk"
    /\ N = 3
    /\ AllNonEmpty
    /\ result.status = "ok"
    /\ \E p \in 1..Len(result.scores) :
          /\ result.scores[p].k = <<1>>
          /\ Count(result.bin[result.calls[p][1]], DefaultBoundary) = VecLen
    /\ \E p \in 1..Len(result.scores) : result.scores[p].k[1] >= 2

====
